---- MODULE Spec2Model ----
(***************************************************************************)
(* The attendance page of the teachers' portal (AttendancePage) against    *)
(* the remote store: the class list and roster/record loads, the editable  *)
(* attendance map, the submission (one batched insert, then one update per *)
(* record) and the class/date selection.  Every remote call is a request   *)
(* whose response arrives in a later step and may be an error.             *)
(***************************************************************************)
EXTENDS Integers, Sequences, FiniteSets, Bags, TLC

\* ------------------------------------------------------------ bounds
MaxOps == 2        \* edits, class/date selections and failed remote calls

\* ------------------------------------------------------------ universe
Classes == {"c1", "c2"}
NoClass == ""                       \* null / undefined / the '' option
Dates == {"d1", "d2"}
Today == "d1"
AllStudents == <<"s1", "s2", "s3">> \* the students table, in last_name order
Students == {AllStudents[i] : i \in DOMAIN AllStudents}
ClassOf == [s \in Students |-> IF s = "s3" THEN "c2" ELSE "c1"]
Statuses == {"present", "late", "absent"}
NotesInputs == {"", "sick"}         \* what the notes textarea may hold
UNDEF == "undefined"                \* a JS property that was never set
NULL == "null"                      \* JS / SQL null

\* Record identifiers.  The store keeps at most one record per (student,
\* date) and never deletes one, so the pair identifies the record.
RecordId(s, d) == <<s, d>>
NewMarker == <<"new">>              \* the literal 'new' of the page
NoId == <<>>                        \* existingRecords[studentId] === undefined

NoRecord == [class_id |-> NoClass, status |-> UNDEF, notes |-> NULL]

Teachers == {"t1", "t2", "t3"}      \* the profiles table

\* profiles.role and profiles.default_class_id of each row: a teacher with a
\* default class, a teacher without one and an admin.
RoleOf == [t \in Teachers |-> IF t = "t3" THEN "admin" ELSE "teacher"]
DefaultClassOf == [t \in Teachers |-> IF t = "t1" THEN "c1" ELSE NULL]
NoUser == ""                        \* user === null: nobody is signed in
NoProfile ==                        \* profile === null
    [id |-> NoUser, role |-> NULL, status |-> NULL, default_class_id |-> NULL]

VARIABLES
    attendance_records, \* store: [Students \X Dates -> record or NoRecord]
    is_active,          \* store: students.is_active
    classId,            \* the route parameter
    selectedClass, classes, students, attendance, loading, saving,
    currentDate, existingRecords, hasChanges,
    classLoads,         \* loadClasses calls in flight (bag of captured classId)
    loads,              \* loadStudentsAndAttendance calls in flight (bag)
    save,               \* the handleSaveAttendance call in flight
    lastOp,             \* history: the handler or response that acted last
    used,               \* history: how much of MaxOps is used
    other,              \* the attendance page of another teacher's session
    profiles,           \* store: profiles.status
    admin,              \* the AdminDashboard component of an admin's session
    user,               \* AuthContext: the id of the session user, or NoUser
    nav,                \* the ResponsiveAppBar component
    dash                \* the TeacherDashboard component

vars == <<attendance_records, is_active, classId, selectedClass, classes,
          students, attendance, loading, saving, currentDate,
          existingRecords, hasChanges, classLoads, loads, save, lastOp, used,
          other, profiles, admin, user, nav, dash>>

storeVars == <<attendance_records, is_active>>

\* What no handler of this page touches.
shellVars == <<user, nav, dash>>
offPage == <<other, profiles, admin, user, nav, dash>>

\* ------------------------------------------------------------ JS values
\* A value used as a condition: undefined, null and '' are falsy.
Truthy(v) == v \notin {UNDEF, NULL, ""}

\* a || b
OrElse(a, b) == IF Truthy(a) THEN a ELSE b

\* The attendance object: a sequence of [id, status, notes] in the order in
\* which the keys were inserted (the order Object.entries walks).
Keys(att) == {att[i].id : i \in DOMAIN att}
IndexOf(att, s) == CHOOSE i \in DOMAIN att : att[i].id = s
\* attendance[s]?.status and attendance[s]?.notes
StatusOf(att, s) == IF s \in Keys(att) THEN att[IndexOf(att, s)].status ELSE UNDEF
NotesOf(att, s) == IF s \in Keys(att) THEN att[IndexOf(att, s)].notes ELSE UNDEF

\* existingRecords[s]
ExistingOf(ex, s) == IF s \in DOMAIN ex THEN ex[s] ELSE NoId
IdTruthy(id) == id # NoId

Range(f) == {f[x] : x \in DOMAIN f}
\* All orderings of a finite set, as sequences without repetition.
Orderings(S) ==
    {q \in [1..Cardinality(S) -> S] : \A i, j \in DOMAIN q : i # j => q[i] # q[j]}

\* ------------------------------------------------------------ the store
\* students .eq('class_id', c).eq('is_active', true).order('last_name')
fetchRoster(c) ==
    SelectSeq(AllStudents, LAMBDA s : ClassOf[s] = c /\ is_active[s])

\* attendance_records .eq('class_id', c).eq('attendance_date', d): the
\* students with a matching row (the rows come back in no stated order).
fetchAttendance(c, d) ==
    {s \in Students : attendance_records[<<s, d>>] # NoRecord
                      /\ attendance_records[<<s, d>>].class_id = c}

\* The one-record-per-(student, date) constraint of the store.
UniqueViolation(recs) ==
    \E i \in DOMAIN recs :
        attendance_records[<<recs[i].student_id, recs[i].attendance_date>>] # NoRecord

\* .insert(recs): all rows or none.
insertAttendance(recs) ==
    [k \in Students \X Dates |->
        IF \E i \in DOMAIN recs :
              <<recs[i].student_id, recs[i].attendance_date>> = k
        THEN LET r == recs[CHOOSE i \in DOMAIN recs :
                          <<recs[i].student_id, recs[i].attendance_date>> = k]
             IN [class_id |-> r.class_id, status |-> r.status, notes |-> r.notes]
        ELSE attendance_records[k]]

\* Mutant of updateAttendance: a row is written only while it still holds
\* what it was created with.
updateAttendance_IfUntouched(id, status, notes) ==
    [k \in Students \X Dates |->
        IF RecordId(k[1], k[2]) = id /\ attendance_records[k] # NoRecord
           /\ attendance_records[k].status = "absent"
        THEN [attendance_records[k] EXCEPT !.status = status, !.notes = notes]
        ELSE attendance_records[k]]

\* .update({status, notes, updated_at}).eq('id', id): the rows whose id
\* matches, none when the id is not a record's.
updateAttendance(id, status, notes) ==
    [k \in Students \X Dates |->
        IF RecordId(k[1], k[2]) = id /\ attendance_records[k] # NoRecord
        THEN [attendance_records[k] EXCEPT !.status = status, !.notes = notes]
        ELSE attendance_records[k]]

\* ------------------------------------------------------------ the page
\* loadStudentsAndAttendance, lines 98-108: the two lookup objects built
\* from the rows of the response, walked in the order `rows`.
buildExisting(rows, d) ==
    [s \in Range(rows) |-> RecordId(s, d)]

\* Mutant of buildAttendance: the notes of the record are not copied.
buildAttendance_DropNotes(rows, d) ==
    [i \in DOMAIN rows |->
        [id |-> rows[i],
         status |-> attendance_records[<<rows[i], d>>].status,
         notes |-> ""]]

buildAttendance(rows, d) ==
    [i \in DOMAIN rows |->
        [id |-> rows[i],
         status |-> attendance_records[<<rows[i], d>>].status,
         notes |-> OrElse(attendance_records[<<rows[i], d>>].notes, "")]]

\* Mutant of setField: the entry is rebuilt with the one field only.
setField_DropsOther(prev, studentId, field, value) ==
    LET new == IF field = "status"
               THEN [id |-> studentId, status |-> value, notes |-> UNDEF]
               ELSE [id |-> studentId, status |-> UNDEF, notes |-> value]
    IN IF studentId \in Keys(prev)
       THEN [prev EXCEPT ![IndexOf(prev, studentId)] = new]
       ELSE Append(prev, new)

\* { ...prev, [studentId]: { ...prev[studentId], [field]: value } }
setField(prev, studentId, field, value) ==
    LET old == IF studentId \in Keys(prev)
               THEN prev[IndexOf(prev, studentId)]
               ELSE [id |-> studentId, status |-> UNDEF, notes |-> UNDEF]
        new == IF field = "status" THEN [old EXCEPT !.status = value]
                                   ELSE [old EXCEPT !.notes = value]
    IN IF studentId \in Keys(prev)
       THEN [prev EXCEPT ![IndexOf(prev, studentId)] = new]
       ELSE Append(prev, new)

\* Mutant of quickMarkEntry: the notes are reset instead of kept.
quickMarkEntry_ClearNotes(att, s, status) ==
    [id |-> s, status |-> status, notes |-> ""]

\* handleQuickMark, lines 159-162: the entry written for one student.
quickMarkEntry(att, s, status) ==
    [id |-> s, status |-> status, notes |-> OrElse(NotesOf(att, s), "")]

\* handleQuickMark, lines 157-163: newAttendance, one entry per roster student.
bulkSetStatus(att, roster, status) ==
    [i \in DOMAIN roster |-> quickMarkEntry(att, roster[i], status)]

\* handleSaveAttendance, line 177: students.filter(s => !attendance[s.id]?.status)
unmarkedStudents(att, roster) ==
    SelectSeq(roster, LAMBDA s : ~Truthy(StatusOf(att, s)))

\* Mutant of submittedEntries: entries without a status are not skipped.
submittedEntries_NoSkip(att) == att

\* handleSaveAttendance, line 193: `if (!data.status) return`.
submittedEntries(att) ==
    SelectSeq(att, LAMBDA e : Truthy(e.status))

\* Mutant of isExisting: the lookup never finds a record.
isExisting_Never(ex, s) == FALSE

\* handleSaveAttendance, line 204: `if (existingRecords[studentId])`.
isExisting(ex, s) == IdTruthy(ExistingOf(ex, s))

\* handleSaveAttendance, lines 195-202.
recordData(e, c, d) ==
    [student_id |-> e.id, class_id |-> c, attendance_date |-> d,
     status |-> e.status, notes |-> OrElse(e.notes, NULL)]

\* Mutant of recordsToSave: what is new is decided by looking at the store
\* instead of existingRecords.
recordsToSave_AsStored(att, ex, c, d) ==
    LET new == SelectSeq(submittedEntries(att),
                         LAMBDA e : attendance_records[<<e.id, d>>] = NoRecord)
    IN [i \in DOMAIN new |-> recordData(new[i], c, d)]

\* handleSaveAttendance, lines 192-214: the two sequences of a submission.
recordsToSave(att, ex, c, d) ==
    LET new == SelectSeq(submittedEntries(att), LAMBDA e : ~isExisting(ex, e.id))
    IN [i \in DOMAIN new |-> recordData(new[i], c, d)]

recordsToUpdate(att, ex, c, d) ==
    LET old == SelectSeq(submittedEntries(att), LAMBDA e : isExisting(ex, e.id))
    IN [i \in DOMAIN old |->
           [id |-> ExistingOf(ex, old[i].id), data |-> recordData(old[i], c, d)]]

\* handleSaveAttendance, lines 249-257.
updatedExisting(att, ex) ==
    LET marked == {s \in Keys(att) :
                      (Truthy(StatusOf(att, s)) /\ ~isExisting(ex, s))
                      \/ isExisting(ex, s)}
    IN [s \in marked |->
           IF Truthy(StatusOf(att, s)) /\ ~isExisting(ex, s)
           THEN NewMarker ELSE ExistingOf(ex, s)]

\* ------------------------------------------------------------ state
Idle == [pc |-> "idle", inserts |-> <<>>, updates |-> <<>>,
         att |-> <<>>, ex |-> <<>>, cls |-> NoClass, date |-> Today]

\* What lastOp records: the handler, the answer given to its confirmation
\* dialog, whether the remote call succeeded and, where a claim reads them,
\* the class, date and argument it acted for (NoClass, Today, "" otherwise);
\* for a failed submission the argument is the write that failed.
Op(name, confirmed, ok, c, d, arg) ==
    [op |-> name, confirmed |-> confirmed, ok |-> ok, cls |-> c, date |-> d,
     arg |-> arg]

\* The store the page may start from: no record yet; a record for s2 that
\* another session saved for today; the same after the admin deactivated s2
\* (AdminDashboard.handleToggleStudentStatus flips students.is_active).
NoRecords == [k \in Students \X Dates |-> NoRecord]
OneRecord ==
    [NoRecords EXCEPT ![<<"s2", Today>>] =
        [class_id |-> "c1", status |-> "absent", notes |-> "sick"]]
AllActive == [s \in Students |-> TRUE]
InitialStores ==
    {<<NoRecords, AllActive>>,
     <<OneRecord, AllActive>>,
     <<OneRecord, [AllActive EXCEPT !["s2"] = FALSE]>>}

\* The page of the other session before it has loaded anything.
NotOpened == [pc |-> "none", loaded |-> <<>>, att |-> <<>>, ex |-> <<>>,
              updates |-> <<>>]

\* handleCreateTeacher inserts every profile with status 'active'.
AllTeachersActive == [t \in Teachers |-> "active"]

\* AdminDashboard once mounted (lines 391-394 and the effect of 419-421):
\* empty lists, loading, one loadDashboardData call in flight and no write.
Mounted == [teachers |-> <<>>, students |-> <<>>, loading |-> TRUE,
            loads |-> 1, calls |-> EmptyBag]

\* The teacher whose session the page, the navigation bar and the teacher
\* dashboard belong to when they mount.
SessionUser == "t1"

\* ResponsiveAppBar once mounted for the session user (line 26 and the
\* effect of lines 28-65): no profile, one loadProfile call in flight.
NavMounted == [profile |-> NoProfile, loads |-> SetToBag({SessionUser})]

\* TeacherDashboard once mounted for the session user (lines 1426-1429 and
\* the effect of lines 1431-1532): loading, its first query in flight.
DashMounted == [profile |-> NoProfile, classes |-> {}, loading |-> TRUE,
                loads |-> SetToBag({[user |-> SessionUser, pc |-> "profile"]})]

\* The route the page is opened with: /teacher/attendance, or the quick
\* link of the teacher's default class.
InitialRoutes == {NoClass, "c1"}

\* The state once the component is mounted (lines 12-20) and its two effects
\* have run: loadClasses is in flight, loadStudentsAndAttendance returned at
\* line 63 because no class is selected.
Init ==
    /\ \E st \in InitialStores : attendance_records = st[1] /\ is_active = st[2]
    /\ classId \in InitialRoutes
    /\ selectedClass = NoClass
    /\ classes = {}
    /\ students = <<>>
    /\ attendance = <<>>
    /\ loading = FALSE
    /\ saving = FALSE
    /\ currentDate = Today
    /\ existingRecords = <<>>
    /\ hasChanges = FALSE
    /\ classLoads = SetToBag({classId})
    /\ loads = EmptyBag
    /\ save = Idle
    /\ lastOp = Op("mount", FALSE, TRUE, NoClass, Today, "")
    /\ used = 0
    /\ other = NotOpened
    /\ profiles = AllTeachersActive
    /\ admin = Mounted
    /\ user = SessionUser
    /\ nav = NavMounted
    /\ dash = DashMounted

\* What the page shows: the spinner replaces everything while loading.
Interactive == ~loading
RosterShown == Interactive /\ selectedClass # NoClass /\ students # <<>>

\* The effect of lines 60-123 running for (c, d): its synchronous part.
startLoad(c, d) ==
    IF c = NoClass
    THEN /\ loading' = FALSE
         /\ loads' = loads
    ELSE /\ loading' = TRUE
         /\ loads' = loads (+) SetToBag({[cls |-> c, date |-> d, pc |-> "students"]})

Failing(ok) == used' = used + (IF ok THEN 0 ELSE 1)
MayFail(ok) == ok \/ used < MaxOps

\* getAttendanceStats, lines 288-295: the forEach over the roster, from the
\* counters `stats` on.
RECURSIVE countStats(_, _, _)
countStats(att, roster, stats) ==
    IF roster = <<>>
    THEN stats
    ELSE LET status == StatusOf(att, Head(roster))
         IN countStats(att, Tail(roster),
                       IF Truthy(status)
                       THEN [stats EXCEPT ![status] = @ + 1]
                       ELSE [stats EXCEPT !.unmarked = @ + 1])

\* Mutant of getAttendanceStats: students without a status are not counted.
getAttendanceStats_NoUnmarked ==
    [countStats(attendance, students,
                [present |-> 0, absent |-> 0, late |-> 0, unmarked |-> 0])
        EXCEPT !.unmarked = 0]

\* getAttendanceStats, lines 286-297, as the render of line 327 calls it.
getAttendanceStats ==
    countStats(attendance, students,
               [present |-> 0, absent |-> 0, late |-> 0, unmarked |-> 0])

\* ------------------------------------------------------------ actions
\* loadClasses, lines 24-54: the response to the call made for route
\* parameter cid.  Every class of the model is active, so the class named
\* by the route is always found (the navigate('/teacher') of line 47, which
\* leaves the page, is not modelled).
loadClassesReturn(cid, ok) ==
    /\ BagIn(cid, classLoads)
    /\ MayFail(ok)
    /\ classLoads' = classLoads (-) SetToBag({cid})
    /\ Failing(ok)
    /\ lastOp' = Op("loadClasses", FALSE, ok, NoClass, Today, "")
    /\ IF ok
       THEN /\ classes' = Classes
            /\ IF cid # NoClass
               THEN /\ selectedClass' = cid   \* a new object: the effect reruns
                    /\ startLoad(cid, currentDate)
               ELSE UNCHANGED <<selectedClass, loading, loads>>
       ELSE UNCHANGED <<classes, selectedClass, loading, loads>>
    /\ UNCHANGED <<storeVars, offPage, classId, students, attendance, saving,
                   currentDate, existingRecords, hasChanges, save>>

\* Mutant of loadStudentsReturn: a failed roster fetch empties the maps.
loadStudentsReturn_Clears(l, ok) ==
    /\ BagIn(l, loads)
    /\ l.pc = "students"
    /\ MayFail(ok)
    /\ Failing(ok)
    /\ lastOp' = Op("loadStudents", FALSE, ok, l.cls, l.date, "")
    /\ IF ok
       THEN /\ students' = fetchRoster(l.cls)
            /\ loads' = (loads (-) SetToBag({l}))
                        (+) SetToBag({[l EXCEPT !.pc = "attendance"]})
            /\ UNCHANGED <<loading, attendance, existingRecords, hasChanges>>
       ELSE /\ loads' = loads (-) SetToBag({l})
            /\ loading' = FALSE
            /\ attendance' = <<>>
            /\ existingRecords' = <<>>
            /\ hasChanges' = FALSE
            /\ UNCHANGED students
    /\ UNCHANGED <<storeVars, offPage, classId, selectedClass, classes,
                   saving, currentDate, classLoads, save>>

\* loadStudentsAndAttendance, lines 70-83: the roster response of load l.
loadStudentsReturn(l, ok) ==
    /\ BagIn(l, loads)
    /\ l.pc = "students"
    /\ MayFail(ok)
    /\ Failing(ok)
    /\ lastOp' = Op("loadStudents", FALSE, ok, l.cls, l.date, "")
    /\ IF ok
       THEN /\ students' = fetchRoster(l.cls)
            /\ loads' = (loads (-) SetToBag({l}))
                        (+) SetToBag({[l EXCEPT !.pc = "attendance"]})
            /\ UNCHANGED loading
       ELSE /\ loads' = loads (-) SetToBag({l})
            /\ loading' = FALSE
            /\ UNCHANGED students
    /\ UNCHANGED <<storeVars, offPage, classId, selectedClass, classes, attendance,
                   saving, currentDate, existingRecords, hasChanges,
                   classLoads, save>>

\* Mutant of loadAttendanceReturn: a successful load leaves hasChanges alone.
loadAttendanceReturn_KeepDirty(l, ok, rows) ==
    /\ BagIn(l, loads)
    /\ l.pc = "attendance"
    /\ MayFail(ok)
    /\ Failing(ok)
    /\ lastOp' = Op("loadAttendance", FALSE, ok, l.cls, l.date,
                    IF hasChanges THEN "dirty" ELSE "")
    /\ loads' = loads (-) SetToBag({l})
    /\ loading' = FALSE
    /\ IF ok
       THEN /\ existingRecords' = buildExisting(rows, l.date)
            /\ attendance' = buildAttendance(rows, l.date)
            /\ UNCHANGED hasChanges
       ELSE UNCHANGED <<existingRecords, attendance, hasChanges>>
    /\ UNCHANGED <<storeVars, offPage, classId, selectedClass, classes, students,
                   saving, currentDate, classLoads, save>>

\* loadStudentsAndAttendance, lines 86-119: the records response of load l,
\* its rows in the order `rows`.  lastOp notes whether the page was dirty
\* when the response arrived.
loadAttendanceReturn(l, ok, rows) ==
    /\ BagIn(l, loads)
    /\ l.pc = "attendance"
    /\ MayFail(ok)
    /\ Failing(ok)
    /\ lastOp' = Op("loadAttendance", FALSE, ok, l.cls, l.date,
                    IF hasChanges THEN "dirty" ELSE "")
    /\ loads' = loads (-) SetToBag({l})
    /\ loading' = FALSE
    /\ IF ok
       THEN /\ existingRecords' = buildExisting(rows, l.date)
            /\ attendance' = buildAttendance(rows, l.date)
            /\ hasChanges' = FALSE
       ELSE UNCHANGED <<existingRecords, attendance, hasChanges>>
    /\ UNCHANGED <<storeVars, offPage, classId, selectedClass, classes, students,
                   saving, currentDate, classLoads, save>>

\* Mutant of handleClassChange: the answer to the dialog is ignored.
handleClassChange_NoGate(newClassId, confirmed) ==
    /\ Interactive
    /\ newClassId \in classes \cup {NoClass}
    /\ newClassId # selectedClass
    /\ hasChanges \/ confirmed
    /\ used < MaxOps
    /\ lastOp' = Op("classChange", confirmed, TRUE, NoClass, Today, "")
    /\ selectedClass' = newClassId
    /\ classId' = newClassId
    /\ startLoad(newClassId, currentDate)
    /\ classLoads' = IF newClassId # classId
                     THEN classLoads (+) SetToBag({newClassId})
                     ELSE classLoads
    /\ used' = used + 1
    /\ UNCHANGED <<storeVars, offPage, classes, students, attendance, saving,
                   currentDate, existingRecords, hasChanges, save>>

\* handleClassChange, lines 125-136, called by the class <select> with one
\* of its options other than the one shown.
handleClassChange(newClassId, confirmed) ==
    /\ Interactive
    /\ newClassId \in classes \cup {NoClass}
    /\ newClassId # selectedClass
    /\ hasChanges \/ confirmed          \* no dialog is shown when clean
    /\ used < MaxOps
    /\ lastOp' = Op("classChange", confirmed, TRUE, NoClass, Today, "")
    /\ IF hasChanges /\ ~confirmed
       THEN UNCHANGED <<selectedClass, classId, loading, loads, classLoads, used>>
       ELSE /\ selectedClass' = newClassId
            /\ classId' = newClassId
            /\ startLoad(newClassId, currentDate)
            /\ classLoads' = IF newClassId # classId
                             THEN classLoads (+) SetToBag({newClassId})
                             ELSE classLoads
            /\ used' = used + 1
    /\ UNCHANGED <<storeVars, offPage, classes, students, attendance, saving,
                   currentDate, existingRecords, hasChanges, save>>

\* The date <input>, line 373: setCurrentDate(e.target.value).
handleDateChange(d) ==
    /\ Interactive
    /\ d # currentDate
    /\ used < MaxOps
    /\ lastOp' = Op("dateChange", FALSE, TRUE, NoClass, Today, "")
    /\ currentDate' = d
    /\ startLoad(selectedClass, d)
    /\ used' = used + 1
    /\ UNCHANGED <<storeVars, offPage, classId, selectedClass, classes, students,
                   attendance, saving, existingRecords, hasChanges,
                   classLoads, save>>

\* handleAttendanceChange, lines 138-147, called by a status button or the
\* notes textarea of a roster row.
handleAttendanceChange(studentId, field, value) ==
    /\ RosterShown
    /\ studentId \in Range(students)
    /\ \/ field = "status" /\ value \in Statuses
       \/ field = "notes" /\ value \in NotesInputs
                          /\ value # OrElse(NotesOf(attendance, studentId), "")
    /\ used < MaxOps
    /\ lastOp' = Op(field, FALSE, TRUE, NoClass, Today, "")
    /\ attendance' = setField(attendance, studentId, field, value)
    /\ hasChanges' = TRUE
    /\ used' = used + 1
    /\ UNCHANGED <<storeVars, offPage, classId, selectedClass, classes, students,
                   loading, saving, currentDate, existingRecords, classLoads,
                   loads, save>>

\* Mutant of handleQuickMark: the answer to the dialog is ignored.
handleQuickMark_NoAsk(status, confirmed) ==
    /\ Interactive
    /\ ~(selectedClass = NoClass \/ Len(students) = 0)
    /\ used < MaxOps
    /\ lastOp' = Op("quickMark", confirmed, TRUE, NoClass, Today,
                    IF confirmed THEN status ELSE "")
    /\ attendance' = bulkSetStatus(attendance, students, status)
    /\ hasChanges' = TRUE
    /\ used' = used + 1
    /\ UNCHANGED <<storeVars, offPage, classId, selectedClass, classes, students,
                   loading, saving, currentDate, existingRecords, classLoads,
                   loads, save>>

\* handleQuickMark, lines 149-168, called by a Mark All button.
handleQuickMark(status, confirmed) ==
    /\ Interactive
    /\ ~(selectedClass = NoClass \/ Len(students) = 0)
    /\ used < MaxOps
    /\ lastOp' = Op("quickMark", confirmed, TRUE, NoClass, Today,
                    IF confirmed THEN status ELSE "")
    /\ IF confirmed
       THEN /\ attendance' = bulkSetStatus(attendance, students, status)
            /\ hasChanges' = TRUE
            /\ used' = used + 1
       ELSE UNCHANGED <<attendance, hasChanges, used>>
    /\ UNCHANGED <<storeVars, offPage, classId, selectedClass, classes, students,
                   loading, saving, currentDate, existingRecords, classLoads,
                   loads, save>>

\* handleSaveAttendance, lines 245-258 and 264: what a submission whose
\* every write succeeded does to the page; att and ex are the attendance and
\* existingRecords the handler was called with.
saveSucceeded(att, ex) ==
    /\ hasChanges' = FALSE
    /\ existingRecords' = updatedExisting(att, ex)
    /\ saving' = FALSE
    /\ save' = Idle

\* Mutant of saveFailed: a failed submission marks the page clean.
saveFailed_Clean ==
    /\ saving' = FALSE
    /\ save' = Idle
    /\ hasChanges' = FALSE
    /\ UNCHANGED existingRecords

\* Mutant of saveFailed: the failed write is skipped and the batch goes on.
saveFailed_GoesOn ==
    /\ saving' = FALSE
    /\ save' = IF save.pc = "insert" /\ save.updates # <<>>
               THEN [save EXCEPT !.pc = "update"]
               ELSE IF save.pc = "update" /\ Tail(save.updates) # <<>>
                    THEN [save EXCEPT !.updates = Tail(@)]
                    ELSE Idle
    /\ UNCHANGED <<hasChanges, existingRecords>>

\* Mutant of saveFailed: the catch without the finally.
saveFailed_NoFinally ==
    /\ save' = Idle
    /\ UNCHANGED <<saving, hasChanges, existingRecords>>

\* handleSaveAttendance, lines 260-265: the catch and the finally.
saveFailed ==
    /\ saving' = FALSE
    /\ save' = Idle
    /\ UNCHANGED <<hasChanges, existingRecords>>

\* Mutant of handleSaveAttendance: the updates are issued before the insert.
handleSaveAttendance_UpdatesFirst(confirmed) ==
    LET ins == recordsToSave(attendance, existingRecords, selectedClass, currentDate)
        upd == recordsToUpdate(attendance, existingRecords, selectedClass, currentDate)
        call == [pc |-> IF upd # <<>> THEN "update" ELSE "insert",
                 inserts |-> ins, updates |-> upd, att |-> attendance,
                 ex |-> existingRecords, cls |-> selectedClass,
                 date |-> currentDate]
    IN
    /\ RosterShown
    /\ hasChanges
    /\ ~saving
    /\ unmarkedStudents(attendance, students) # <<>> \/ confirmed  \* no dialog
    /\ lastOp' = Op(IF unmarkedStudents(attendance, students) # <<>> /\ ~confirmed
                    THEN "saveDeclined"
                    ELSE IF ins = <<>> /\ upd = <<>> THEN "saveOk" ELSE "saveStart",
                    confirmed, TRUE, NoClass, Today, "")
    /\ IF selectedClass = NoClass
          \/ (unmarkedStudents(attendance, students) # <<>> /\ ~confirmed)
       THEN UNCHANGED <<saving, save, hasChanges, existingRecords>>
       ELSE IF ins = <<>> /\ upd = <<>>
            THEN saveSucceeded(attendance, existingRecords)
            ELSE /\ saving' = TRUE
                 /\ save' = call
                 /\ UNCHANGED <<hasChanges, existingRecords>>
    /\ UNCHANGED <<storeVars, offPage, classId, selectedClass, classes, students,
                   attendance, loading, currentDate, classLoads, loads, used>>

\* Mutant of handleSaveAttendance: the answer to the dialog is ignored.
handleSaveAttendance_NoAsk(confirmed) ==
    LET ins == recordsToSave(attendance, existingRecords, selectedClass, currentDate)
        upd == recordsToUpdate(attendance, existingRecords, selectedClass, currentDate)
        call == [pc |-> IF ins # <<>> THEN "insert" ELSE "update",
                 inserts |-> ins, updates |-> upd, att |-> attendance,
                 ex |-> existingRecords, cls |-> selectedClass,
                 date |-> currentDate]
    IN
    /\ RosterShown
    /\ hasChanges
    /\ ~saving
    /\ unmarkedStudents(attendance, students) # <<>> \/ confirmed  \* no dialog
    /\ lastOp' = Op(IF ins = <<>> /\ upd = <<>> THEN "saveOk" ELSE "saveStart",
                    confirmed, TRUE, NoClass, Today, "")
    /\ IF selectedClass = NoClass
       THEN UNCHANGED <<saving, save, hasChanges, existingRecords>>
       ELSE IF ins = <<>> /\ upd = <<>>
            THEN saveSucceeded(attendance, existingRecords)
            ELSE /\ saving' = TRUE
                 /\ save' = call
                 /\ UNCHANGED <<hasChanges, existingRecords>>
    /\ UNCHANGED <<storeVars, offPage, classId, selectedClass, classes, students,
                   attendance, loading, currentDate, classLoads, loads, used>>

\* handleSaveAttendance, lines 170-214, called by a Save button (shown with
\* the roster, enabled when hasChanges and not saving): everything up to
\* the first remote call.
handleSaveAttendance(confirmed) ==
    LET ins == recordsToSave(attendance, existingRecords, selectedClass, currentDate)
        upd == recordsToUpdate(attendance, existingRecords, selectedClass, currentDate)
        call == [pc |-> IF ins # <<>> THEN "insert" ELSE "update",
                 inserts |-> ins, updates |-> upd, att |-> attendance,
                 ex |-> existingRecords, cls |-> selectedClass,
                 date |-> currentDate]
    IN
    /\ RosterShown
    /\ hasChanges
    /\ ~saving
    /\ unmarkedStudents(attendance, students) # <<>> \/ confirmed  \* no dialog
    /\ lastOp' = Op(IF unmarkedStudents(attendance, students) # <<>> /\ ~confirmed
                    THEN "saveDeclined"
                    ELSE IF ins = <<>> /\ upd = <<>> THEN "saveOk" ELSE "saveStart",
                    confirmed, TRUE, NoClass, Today, "")
    /\ IF selectedClass = NoClass
          \/ (unmarkedStudents(attendance, students) # <<>> /\ ~confirmed)
       THEN UNCHANGED <<saving, save, hasChanges, existingRecords>>
       ELSE IF ins = <<>> /\ upd = <<>>
            THEN saveSucceeded(attendance, existingRecords)
            ELSE /\ saving' = TRUE
                 /\ save' = call
                 /\ UNCHANGED <<hasChanges, existingRecords>>
    /\ UNCHANGED <<storeVars, offPage, classId, selectedClass, classes, students,
                   attendance, loading, currentDate, classLoads, loads, used>>

\* handleSaveAttendance, lines 217-226: the response to the batched insert.
\* The store refuses the batch when a row breaks its uniqueness constraint.
insertReturn(ok) ==
    /\ save.pc = "insert"
    /\ MayFail(ok)
    /\ Failing(ok)
    /\ IF ok /\ ~UniqueViolation(save.inserts)
       THEN /\ attendance_records' = insertAttendance(save.inserts)
            /\ IF save.updates # <<>>
               THEN /\ save' = [save EXCEPT !.pc = "update"]
                    /\ lastOp' = Op("inserted", FALSE, TRUE, NoClass, Today, "")
                    /\ UNCHANGED <<saving, hasChanges, existingRecords>>
               ELSE /\ saveSucceeded(save.att, save.ex)
                    /\ lastOp' = Op("saveOk", FALSE, TRUE, NoClass, Today, "")
       ELSE /\ saveFailed
            /\ lastOp' = Op(IF ok THEN "insertRejected" ELSE "saveFailed",
                            FALSE, FALSE, NoClass, Today, "insert")
            /\ UNCHANGED attendance_records
    /\ UNCHANGED <<is_active, offPage, classId, selectedClass, classes, students,
                   attendance, loading, currentDate, classLoads, loads>>

\* handleSaveAttendance, lines 229-243: the response to the update of the
\* first record still to be updated.
updateReturn(ok) ==
    /\ save.pc = "update"
    /\ MayFail(ok)
    /\ Failing(ok)
    /\ IF ok
       THEN /\ attendance_records' =
                 updateAttendance(Head(save.updates).id,
                                  Head(save.updates).data.status,
                                  Head(save.updates).data.notes)
            /\ IF Tail(save.updates) # <<>>
               THEN /\ save' = [save EXCEPT !.updates = Tail(@)]
                    /\ lastOp' = Op("updated", FALSE, TRUE, NoClass, Today, "")
                    /\ UNCHANGED <<saving, hasChanges, existingRecords>>
               ELSE /\ saveSucceeded(save.att, save.ex)
                    /\ lastOp' = Op("saveOk", FALSE, TRUE, NoClass, Today, "")
       ELSE /\ saveFailed
            /\ lastOp' = Op("saveFailed", FALSE, FALSE, NoClass, Today, "update")
            /\ UNCHANGED attendance_records
    /\ UNCHANGED <<is_active, offPage, classId, selectedClass, classes, students,
                   attendance, loading, currentDate, classLoads, loads>>

\* ------------------------------------------------------------ a second session
\* Another teacher has the same page open on class c1 and today's date.
\* Its handlers are the ones above; of its state only the two maps and the
\* updates of its submission are kept, and (history) the map as it loaded it.
OtherClass == "c1"

\* loadStudentsAndAttendance, lines 86-112, in the other session.
otherLoadAttendanceReturn(rows) ==
    /\ other.pc = "none"
    /\ rows # <<>>
    /\ other' = [pc |-> "loaded", loaded |-> buildAttendance(rows, Today),
                 att |-> buildAttendance(rows, Today),
                 ex |-> buildExisting(rows, Today), updates |-> <<>>]
    /\ lastOp' = Op("otherLoad", FALSE, TRUE, NoClass, Today, "")
    /\ UNCHANGED <<storeVars, shellVars, profiles, admin, classId, selectedClass, classes,
                   students, attendance, loading, saving, currentDate,
                   existingRecords, hasChanges, classLoads, loads, save, used>>

\* handleAttendanceChange (a status button) and then handleSaveAttendance,
\* lines 138-147 and 170-214, in the other session: its updates are issued.
otherSubmit(studentId, value) ==
    LET att == setField(other.att, studentId, "status", value)
    IN
    /\ other.pc = "loaded"
    /\ studentId \in Keys(other.att)
    /\ used < MaxOps
    /\ other' = [other EXCEPT
                    !.pc = "updating", !.att = att,
                    !.updates = recordsToUpdate(att, other.ex, OtherClass, Today)]
    /\ lastOp' = Op("otherSubmit", FALSE, TRUE, NoClass, Today, "")
    /\ used' = used + 1
    /\ UNCHANGED <<storeVars, shellVars, profiles, admin, classId, selectedClass, classes,
                   students, attendance, loading, saving, currentDate,
                   existingRecords, hasChanges, classLoads, loads, save>>

\* handleSaveAttendance, lines 229-265, in the other session: the response
\* to the update of its first record still to be updated.
otherUpdateReturn(ok) ==
    /\ other.pc = "updating"
    /\ MayFail(ok)
    /\ Failing(ok)
    /\ lastOp' = Op("otherUpdate", FALSE, ok, NoClass, Today, "")
    /\ IF ok
       THEN /\ attendance_records' =
                 updateAttendance(Head(other.updates).id,
                                  Head(other.updates).data.status,
                                  Head(other.updates).data.notes)
            /\ other' = [other EXCEPT
                            !.updates = Tail(@),
                            !.pc = IF Tail(other.updates) = <<>>
                                   THEN "saved" ELSE "updating"]
       ELSE /\ other' = [other EXCEPT !.pc = "loaded", !.updates = <<>>]
            /\ UNCHANGED attendance_records
    /\ UNCHANGED <<is_active, shellVars, profiles, admin, classId, selectedClass, classes,
                   students, attendance, loading, saving, currentDate,
                   existingRecords, hasChanges, classLoads, loads, save>>

\* ------------------------------------------------------------ the admin
\* AdminDashboard: the lists it shows (a row's value as last loaded) and its
\* writes to the profiles and students tables.
pageVars == <<classId, selectedClass, classes, students, attendance, loading,
              saving, currentDate, existingRecords, hasChanges, classLoads,
              loads, save>>

\* Mutant of toggledTeacherStatus: the account is suspended either way.
toggledTeacherStatus_Paused(currentStatus) == "paused"

\* handleToggleTeacherStatus, line 605.
toggledTeacherStatus(currentStatus) ==
    IF currentStatus = "active" THEN "paused" ELSE "active"

\* handleToggleStudentStatus, line 661.
toggledStudentStatus(currentStatus) == ~currentStatus

\* loadDashboardData, lines 423-520: the responses to its queries; a query
\* that fails leaves its list as it was (lines 444-449, 498-503).
loadDashboardDataReturn(okTeachers, okStudents) ==
    /\ admin.loads > 0
    /\ MayFail(okTeachers /\ okStudents)
    /\ Failing(okTeachers /\ okStudents)
    /\ admin' = [admin EXCEPT
                    !.teachers = IF okTeachers THEN profiles ELSE @,
                    !.students = IF okStudents THEN is_active ELSE @,
                    !.loading = FALSE,
                    !.loads = @ - 1]
    /\ lastOp' = Op("loadDashboardData", FALSE, okTeachers /\ okStudents,
                    NoClass, Today, "")
    /\ UNCHANGED <<storeVars, profiles, other, pageVars, shellVars>>

\* handleToggleTeacherStatus, lines 604-613, called by the button of a row
\* of the teachers list with the status that row shows: up to the update.
handleToggleTeacherStatus(teacherId, confirmed) ==
    /\ ~admin.loading
    /\ teacherId \in DOMAIN admin.teachers
    /\ used < MaxOps
    /\ lastOp' = Op("toggleTeacher", confirmed, TRUE, NoClass, Today, teacherId)
    /\ IF confirmed
       THEN /\ admin' = [admin EXCEPT !.calls = @ (+) SetToBag({
                   [table |-> "profiles", id |-> teacherId,
                    value |-> toggledTeacherStatus(admin.teachers[teacherId])]})]
            /\ used' = used + 1
       ELSE UNCHANGED <<admin, used>>
    /\ UNCHANGED <<storeVars, profiles, other, pageVars, shellVars>>

\* handleUpdateTeacher, lines 585-602: the response to its update.
handleUpdateTeacherReturn(call, ok) ==
    /\ BagIn(call, admin.calls)
    /\ call.table = "profiles"
    /\ MayFail(ok)
    /\ Failing(ok)
    /\ lastOp' = Op("updateTeacher", FALSE, ok, NoClass, Today, call.id)
    /\ IF ok
       THEN /\ profiles' = [profiles EXCEPT ![call.id] = call.value]
            /\ admin' = [admin EXCEPT !.calls = @ (-) SetToBag({call}),
                                      !.loading = TRUE, !.loads = @ + 1]
       ELSE /\ admin' = [admin EXCEPT !.calls = @ (-) SetToBag({call})]
            /\ UNCHANGED profiles
    /\ UNCHANGED <<storeVars, other, pageVars, shellVars>>

\* handleToggleStudentStatus, lines 660-668, called by the button of a row
\* of the students list with the flag that row shows: up to the update.
handleToggleStudentStatus(studentId, confirmed) ==
    /\ ~admin.loading
    /\ studentId \in DOMAIN admin.students
    /\ used < MaxOps
    /\ lastOp' = Op("toggleStudent", confirmed, TRUE, NoClass, Today, studentId)
    /\ IF confirmed
       THEN /\ admin' = [admin EXCEPT !.calls = @ (+) SetToBag({
                   [table |-> "students", id |-> studentId,
                    value |-> toggledStudentStatus(admin.students[studentId])]})]
            /\ used' = used + 1
       ELSE UNCHANGED <<admin, used>>
    /\ UNCHANGED <<storeVars, profiles, other, pageVars, shellVars>>

\* handleToggleStudentStatus, lines 668-682: the response to its update.
handleToggleStudentStatusReturn(call, ok) ==
    /\ BagIn(call, admin.calls)
    /\ call.table = "students"
    /\ MayFail(ok)
    /\ Failing(ok)
    /\ lastOp' = Op("updateStudent", FALSE, ok, NoClass, Today, call.id)
    /\ IF ok
       THEN /\ is_active' = [is_active EXCEPT ![call.id] = call.value]
            /\ admin' = [admin EXCEPT !.calls = @ (-) SetToBag({call}),
                                      !.loading = TRUE, !.loads = @ + 1]
       ELSE /\ admin' = [admin EXCEPT !.calls = @ (-) SetToBag({call})]
            /\ UNCHANGED is_active
    /\ UNCHANGED <<attendance_records, profiles, other, pageVars, shellVars>>

Next ==
    \/ \E cid \in Classes \cup {NoClass}, ok \in BOOLEAN : loadClassesReturn(cid, ok)
    \/ \E l \in BagToSet(loads), ok \in BOOLEAN : loadStudentsReturn(l, ok)
    \/ \E l \in BagToSet(loads), ok \in BOOLEAN :
          \E rows \in Orderings(fetchAttendance(l.cls, l.date)) :
              loadAttendanceReturn(l, ok, rows)
    \/ \E c \in Classes \cup {NoClass}, confirmed \in BOOLEAN :
          handleClassChange(c, confirmed)
    \/ \E d \in Dates : handleDateChange(d)
    \/ \E s \in Students, value \in Statuses \cup NotesInputs :
          \/ handleAttendanceChange(s, "status", value)
          \/ handleAttendanceChange(s, "notes", value)
    \/ \E status \in Statuses, confirmed \in BOOLEAN : handleQuickMark(status, confirmed)
    \/ \E confirmed \in BOOLEAN : handleSaveAttendance(confirmed)
    \/ \E ok \in BOOLEAN : insertReturn(ok)
    \/ \E ok \in BOOLEAN : updateReturn(ok)

Spec == Init /\ [][Next]_vars

\* The page later in a session: the quick link of class c1 was opened, the
\* class list and today's roster and records have been loaded, and the
\* teacher has set the status of one roster student, which is not saved.
InitEditing ==
    /\ \E st \in InitialStores : attendance_records = st[1] /\ is_active = st[2]
    /\ classId = "c1"
    /\ selectedClass = "c1"
    /\ classes = Classes
    /\ students = fetchRoster("c1")
    /\ \E rows \in Orderings(fetchAttendance("c1", Today)) :
          /\ existingRecords = buildExisting(rows, Today)
          /\ \E s \in Range(students), value \in Statuses :
                attendance = setField(buildAttendance(rows, Today), s, "status", value)
    /\ loading = FALSE
    /\ saving = FALSE
    /\ currentDate = Today
    /\ hasChanges = TRUE
    /\ classLoads = EmptyBag
    /\ loads = EmptyBag
    /\ save = Idle
    /\ lastOp = Op("status", FALSE, TRUE, NoClass, Today, "")
    /\ used = 0
    /\ other = NotOpened
    /\ profiles = AllTeachersActive
    /\ admin = Mounted
    /\ user = SessionUser
    /\ nav = NavMounted
    /\ dash = DashMounted

SpecEditing == InitEditing /\ [][Next]_vars

\* The page together with the other session.
NextTwoSessions ==
    \/ Next
    \/ \E rows \in Orderings(fetchAttendance(OtherClass, Today)) :
          otherLoadAttendanceReturn(rows)
    \/ \E s \in Students, value \in Statuses : otherSubmit(s, value)
    \/ \E ok \in BOOLEAN : otherUpdateReturn(ok)

SpecTwoSessions == Init /\ [][NextTwoSessions]_vars

\* The page together with the admin's dashboard.
NextAdmin ==
    \/ Next
    \/ \E okTeachers, okStudents \in BOOLEAN :
          loadDashboardDataReturn(okTeachers, okStudents)
    \/ \E t \in Teachers, confirmed \in BOOLEAN :
          handleToggleTeacherStatus(t, confirmed)
    \/ \E call \in BagToSet(admin.calls), ok \in BOOLEAN :
          handleUpdateTeacherReturn(call, ok)
    \/ \E s \in Students, confirmed \in BOOLEAN :
          handleToggleStudentStatus(s, confirmed)
    \/ \E call \in BagToSet(admin.calls), ok \in BOOLEAN :
          handleToggleStudentStatusReturn(call, ok)

SpecAdmin == Init /\ [][NextAdmin]_vars

\* ------------------------------------------------------------ the shell
\* ResponsiveAppBar and TeacherDashboard, which both follow the session user
\* of AuthContext.

\* profiles .eq('id', u).single(), lines 32-47 and 1437-1454: the row of u
\* (the joined class name only labels the quick link and is left out).
fetchProfile(u) ==
    [id |-> u, role |-> RoleOf[u], status |-> profiles[u],
     default_class_id |-> DefaultClassOf[u]]

\* A page of the navigation: its name and the segments of its link.
Page(pageName, link) == [pageName |-> pageName, link |-> link]

\* Mutant of getNavigationPages: the quick link is pushed for every role.
getNavigationPages_QuickForAll(u, profile) ==
    IF u = NoUser \/ profile = NoProfile
    THEN <<Page("Sign In", <<"auth", "sign-in">>),
           Page("Sign Up", <<"auth", "sign-up">>)>>
    ELSE <<Page("Dashboard", <<>>)>>
         \o (IF profile.role = "teacher"
             THEN <<Page("Take Attendance", <<"teacher">>)>>
             ELSE <<>>)
         \o <<Page("Quick", <<"teacher", "attendance", profile.default_class_id>>)>>
         \o (IF profile.role = "admin"
             THEN <<Page("Teacher Dashboard", <<"teacher">>),
                    Page("Admin Panel", <<"admin">>)>>
             ELSE <<>>)

\* getNavigationPages, lines 68-102, of the user and profile it closes over.
getNavigationPages(u, profile) ==
    IF u = NoUser \/ profile = NoProfile
    THEN <<Page("Sign In", <<"auth", "sign-in">>),
           Page("Sign Up", <<"auth", "sign-up">>)>>
    ELSE <<Page("Dashboard", <<>>)>>
         \o (IF profile.role = "teacher"
             THEN <<Page("Take Attendance", <<"teacher">>)>>
                  \o (IF Truthy(profile.default_class_id)
                      THEN <<Page("Quick", <<"teacher", "attendance",
                                             profile.default_class_id>>)>>
                      ELSE <<>>)
             ELSE <<>>)
         \o (IF profile.role = "admin"
             THEN <<Page("Teacher Dashboard", <<"teacher">>),
                    Page("Admin Panel", <<"admin">>)>>
             ELSE <<>>)

\* The effect of lines 1431-1532 running for user u: its synchronous part
\* (line 1433 returns when nobody is signed in).
startDashboardLoad(u) ==
    IF u = NoUser
    THEN dash' = dash
    ELSE dash' = [dash EXCEPT
                     !.loads = @ (+) SetToBag({[user |-> u, pc |-> "profile"]})]

\* supabase.auth.signOut(), line 129, once AuthContext holds no user: the
\* effect of lines 60-64 clears the profile, the effect of the dashboard
\* returns at line 1433.
handleSignOut ==
    /\ user # NoUser
    /\ used < MaxOps
    /\ user' = NoUser
    /\ nav' = [nav EXCEPT !.profile = NoProfile]
    /\ startDashboardLoad(NoUser)
    /\ lastOp' = Op("handleSignOut", FALSE, TRUE, NoClass, Today, user)
    /\ used' = used + 1
    /\ UNCHANGED <<storeVars, profiles, other, admin, pageVars>>

\* AuthContext takes user u after a sign-in: both effects on [user] run,
\* lines 60-61 and 1531.
signIn(u) ==
    /\ user = NoUser
    /\ used < MaxOps
    /\ user' = u
    /\ nav' = [nav EXCEPT !.loads = @ (+) SetToBag({u})]
    /\ startDashboardLoad(u)
    /\ lastOp' = Op("signIn", FALSE, TRUE, NoClass, Today, u)
    /\ used' = used + 1
    /\ UNCHANGED <<storeVars, profiles, other, admin, pageVars>>

\* loadProfile, lines 29-58: the response to the query made for user u.
loadProfileReturn(u, ok) ==
    /\ BagIn(u, nav.loads)
    /\ MayFail(ok)
    /\ Failing(ok)
    /\ nav' = [nav EXCEPT
                  !.loads = @ (-) SetToBag({u}),
                  !.profile = IF ok THEN fetchProfile(u) ELSE @]
    /\ lastOp' = Op("loadProfile", FALSE, ok, NoClass, Today, u)
    /\ UNCHANGED <<storeVars, profiles, other, admin, pageVars, user, dash>>

\* The classes query of lines 1459-1472: the classes with a student
\* (students!inner); every class of the model is active.
fetchClassesWithStudents == {ClassOf[s] : s \in Students}

\* TeacherDashboard loadDashboardData, lines 1432-1529: the response to the
\* query that call l waits for.  The rows of the third query are what the
\* dashboard lists and are not kept.
teacherLoadDashboardDataReturn(l, ok) ==
    LET rest == dash.loads (-) SetToBag({l})
        next(pc) == rest (+) SetToBag({[l EXCEPT !.pc = pc]})
    IN
    /\ BagIn(l, dash.loads)
    /\ MayFail(ok)
    /\ Failing(ok)
    /\ dash' =
          CASE l.pc = "profile" /\ ok ->
                 [dash EXCEPT !.profile = fetchProfile(l.user),
                              !.loads = next("classes")]
            [] l.pc = "profile" /\ ~ok ->
                 [dash EXCEPT !.loading = FALSE, !.loads = rest]
            [] l.pc = "classes" ->
                 [dash EXCEPT !.classes = IF ok THEN fetchClassesWithStudents ELSE @,
                              !.loads = next("attendance")]
            [] l.pc = "attendance" ->
                 [dash EXCEPT !.loading = FALSE, !.loads = rest]
    /\ lastOp' = Op("teacherLoadDashboardData", FALSE, ok, NoClass, Today, l.pc)
    /\ UNCHANGED <<storeVars, profiles, other, admin, pageVars, user, nav>>

\* The navigation bar and the teacher dashboard under sign-out and sign-in.
NextShell ==
    \/ handleSignOut
    \/ \E u \in Teachers : signIn(u)
    \/ \E u \in Teachers, ok \in BOOLEAN : loadProfileReturn(u, ok)
    \/ \E l \in BagToSet(dash.loads), ok \in BOOLEAN :
          teacherLoadDashboardDataReturn(l, ok)

SpecShell == Init /\ [][NextShell]_vars

\* The attendance page and the teacher dashboard of the session user.
NextLive ==
    \/ Next
    \/ \E l \in BagToSet(dash.loads), ok \in BOOLEAN :
          teacherLoadDashboardDataReturn(l, ok)

\* Every remote call returns: whenever a call is in flight, its response,
\* or its error, arrives.
EveryCallReturns ==
    /\ WF_vars(\E cid \in Classes \cup {NoClass}, ok \in BOOLEAN :
                  loadClassesReturn(cid, ok))
    /\ WF_vars(\E l \in BagToSet(loads), ok \in BOOLEAN : loadStudentsReturn(l, ok))
    /\ WF_vars(\E l \in BagToSet(loads), ok \in BOOLEAN :
                  \E rows \in Orderings(fetchAttendance(l.cls, l.date)) :
                      loadAttendanceReturn(l, ok, rows))
    /\ WF_vars(\E ok \in BOOLEAN : insertReturn(ok))
    /\ WF_vars(\E ok \in BOOLEAN : updateReturn(ok))
    /\ WF_vars(\E l \in BagToSet(dash.loads), ok \in BOOLEAN :
                  teacherLoadDashboardDataReturn(l, ok))

SpecLive == Init /\ [][NextLive]_vars /\ EveryCallReturns

\* ------------------------------------------------------------ claims
StudentsOf(recs) == {recs[i].student_id : i \in DOMAIN recs}
UpdatedStudents(upds) == {upds[i].data.student_id : i \in DOMAIN upds}
\* An editable notes value and a stored one say the same: no notes is
\* undefined or '' on the page and null in the store.
SameNotes(pageNotes, storeNotes) ==
    IF storeNotes = NULL THEN pageNotes \in {UNDEF, ""} ELSE pageNotes = storeNotes

\* C1: the submission in flight holds neither an insert nor an update for a
\* student whose entry, in the map it was computed from, has no status
\* (an entry that holds only notes included).
C1_NoWriteForUnsetStatus ==
    \A s \in Students :
        StatusOf(save.att, s) \in {UNDEF, ""} =>
            /\ s \notin StudentsOf(save.inserts)
            /\ s \notin UpdatedStudents(save.updates)

\* C1 witness: a submission was started from a map with a notes-only entry.
C1_Witness ==
    /\ lastOp.op = "saveStart"
    /\ \E s \in Keys(save.att) :
          StatusOf(save.att, s) = UNDEF /\ NotesOf(save.att, s) = "sick"

\* C2: when a submission starts, every entry with a status is in exactly one
\* of the two sequences, exactly once: in updates when its student is a key
\* of existingRecords, in inserts when it is not.
C2_Partition ==
    lastOp.op = "saveStart" =>
        \A s \in Keys(save.att) :
            StatusOf(save.att, s) \in Statuses =>
                LET nIns == Cardinality({i \in DOMAIN save.inserts :
                                            save.inserts[i].student_id = s})
                    nUpd == Cardinality({i \in DOMAIN save.updates :
                                            save.updates[i].data.student_id = s})
                IN IF s \in DOMAIN save.ex
                   THEN nUpd = 1 /\ nIns = 0
                   ELSE nIns = 1 /\ nUpd = 0

\* C2 witness: a submission started with both an insert and an update.
C2_Witness ==
    /\ lastOp.op = "saveStart"
    /\ save.inserts # <<>>
    /\ save.updates # <<>>

\* C3 (as claimed): when a submission reports success, the store holds for
\* every student with a status in the submitted map a record for that
\* student and the submission's date with that status and those notes.
C3_SuccessMeansStored ==
    [][(lastOp'.op = "saveOk" /\ save.pc # "idle") =>
          \A s \in Keys(save.att) :
              StatusOf(save.att, s) \in Statuses =>
                  LET r == attendance_records'[<<s, save.date>>]
                  IN /\ r # NoRecord
                     /\ r.status = StatusOf(save.att, s)
                     /\ SameNotes(NotesOf(save.att, s), r.notes)]_vars

\* C4 (as claimed): the batched insert in flight never holds a row for a
\* student who already has a record in the store for that date.
C4_NoInsertForRecorded ==
    save.pc = "insert" =>
        \A i \in DOMAIN save.inserts :
            attendance_records[<<save.inserts[i].student_id,
                                 save.inserts[i].attendance_date>>] = NoRecord

\* C5: right after a load for (class, date) succeeded, a student with a
\* record in the store under that class and date has an entry with the
\* record's status and notes (no notes read as '') and the record's id in
\* existingRecords, once; any other student is in neither map.
C5_LoadBuildsFromRecords ==
    (lastOp.op = "loadAttendance" /\ lastOp.ok) =>
        /\ Len(attendance) = Cardinality(Keys(attendance))
        /\ \A s \in Students :
              LET r == attendance_records[<<s, lastOp.date>>]
              IN IF r # NoRecord /\ r.class_id = lastOp.cls
                 THEN /\ s \in Keys(attendance)
                      /\ StatusOf(attendance, s) = r.status
                      /\ NotesOf(attendance, s) = (IF r.notes = NULL THEN "" ELSE r.notes)
                      /\ s \in DOMAIN existingRecords
                      /\ existingRecords[s] = RecordId(s, lastOp.date)
                 ELSE /\ s \notin Keys(attendance)
                      /\ s \notin DOMAIN existingRecords

\* C5 witness: a load succeeded that found a record with notes and left a
\* student without one.
C5_Witness ==
    /\ lastOp.op = "loadAttendance" /\ lastOp.ok
    /\ \E s \in Keys(attendance) : NotesOf(attendance, s) = "sick"
    /\ \E s \in Range(students) : s \notin Keys(attendance)

\* C6 (as claimed): every key of existingRecords is a key of attendance.
C6_ExistingKeysAreEditable ==
    DOMAIN existingRecords \subseteq Keys(attendance)

\* C7 (as claimed): right after a load for a class succeeded, every key of
\* attendance is an active student of that class.
C7_EntriesOnlyForRoster ==
    (lastOp.op = "loadAttendance" /\ lastOp.ok) =>
        \A s \in Keys(attendance) : ClassOf[s] = lastOp.cls /\ is_active[s]

\* C8: a confirmed Mark All leaves every roster student with the given
\* status and with the notes the student had before ('' when none).
C8_BulkKeepsNotes ==
    [][(lastOp'.op = "quickMark" /\ lastOp'.confirmed) =>
          \A i \in DOMAIN students :
              LET s == students[i]
              IN /\ s \in Keys(attendance')
                 /\ StatusOf(attendance', s) = lastOp'.arg
                 /\ NotesOf(attendance', s) =
                       (IF NotesOf(attendance, s) = UNDEF THEN ""
                        ELSE NotesOf(attendance, s))]_vars

\* C8 witness: a Mark All was confirmed and a roster student still has the
\* notes of before, another has none.
C8_Witness ==
    /\ lastOp.op = "quickMark" /\ lastOp.confirmed
    /\ \E s \in Range(students) : NotesOf(attendance, s) = "sick"
    /\ \E s \in Range(students) : NotesOf(attendance, s) = ""

\* C9 (as claimed): while dirty, a step that changes the class or the date
\* and starts a load or replaces the editable map was confirmed by the user.
C9_DirtySwitchConfirmed ==
    [][(hasChanges
        /\ (selectedClass' # selectedClass \/ currentDate' # currentDate)
        /\ (loads' # loads \/ attendance' # attendance)) =>
          (lastOp'.op = "classChange" /\ lastOp'.confirmed)]_vars

\* C10: declining the dialog of a class switch made while dirty changes
\* nothing of the page and starts no load.
C10_DeclineIsNoOp ==
    [][(lastOp'.op = "classChange" /\ hasChanges /\ ~lastOp'.confirmed) =>
          UNCHANGED <<selectedClass, classId, currentDate, attendance,
                      existingRecords, hasChanges, students, classes,
                      loading, saving, loads, classLoads, save, storeVars>>]_vars

\* C10 witness: a class switch was declined while dirty.
C10_Witness ==
    /\ lastOp.op = "classChange" /\ ~lastOp.confirmed
    /\ hasChanges

\* The editable map and existingRecords hold exactly the records of the
\* store for (c, d): one entry per record, with its status, notes and id.
HoldsExactly(c, d) ==
    /\ Len(attendance) = Cardinality(Keys(attendance))
    /\ Keys(attendance) = fetchAttendance(c, d)
    /\ DOMAIN existingRecords = fetchAttendance(c, d)
    /\ \A s \in fetchAttendance(c, d) :
          /\ StatusOf(attendance, s) = attendance_records[<<s, d>>].status
          /\ SameNotes(NotesOf(attendance, s), attendance_records[<<s, d>>].notes)
          /\ existingRecords[s] = RecordId(s, d)

\* C11: once the load for the selected class and date has succeeded (the
\* class was selected by an accepted or clean class switch, or by the
\* route), the editable map and existingRecords hold exactly the store's
\* records for that pair, so none of the edits made before, and the page is
\* clean.
C11_SwitchLoadsNewPair ==
    (lastOp.op = "loadAttendance" /\ lastOp.ok
     /\ lastOp.cls = selectedClass /\ lastOp.date = currentDate) =>
        /\ HoldsExactly(selectedClass, currentDate)
        /\ ~hasChanges

\* C11 witness: the load that followed a confirmed switch from c1, made
\* while dirty, to c2 has succeeded.
C11_Witness ==
    /\ lastOp.op = "loadAttendance" /\ lastOp.ok /\ lastOp.arg = "dirty"
    /\ lastOp.cls = "c2" /\ selectedClass = "c2" /\ lastOp.date = currentDate

\* C12: every edit of a field and every confirmed Mark All leaves the page
\* dirty; the page goes from dirty to clean only when a submission reports
\* success (each of its writes returned without error) or a load succeeds;
\* a submission that fails leaves the dirty flag as it is.
C12_DirtyFlagMachine ==
    [][/\ (lastOp'.op \in {"status", "notes"}
           \/ (lastOp'.op = "quickMark" /\ lastOp'.confirmed)) => hasChanges'
       /\ (hasChanges /\ ~hasChanges') =>
              (lastOp'.op = "saveOk"
               \/ (lastOp'.op = "loadAttendance" /\ lastOp'.ok))
       /\ lastOp'.op \in {"saveFailed", "insertRejected"} =>
              hasChanges' = hasChanges]_vars

\* C12 witness: a submission of a dirty page failed and the page is dirty.
C12_Witness ==
    /\ lastOp.op \in {"saveFailed", "insertRejected"}
    /\ hasChanges

\* C13: when a write of a submission fails, the submission ends there: the
\* writes it had not yet issued are dropped, and the store is left as the
\* writes that completed before made it.
C13_FailureAborts ==
    [][(lastOp'.op \in {"saveFailed", "insertRejected"} /\ save.pc # "idle") =>
          /\ save' = Idle
          /\ attendance_records' = attendance_records]_vars

\* C13 witness: the insert of a submission was applied and its update then
\* failed: the store holds a record the page does not know of.
C13_Witness ==
    /\ lastOp.op = "saveFailed" /\ lastOp.arg = "update"
    /\ \E s \in Keys(attendance) :
          /\ s \notin DOMAIN existingRecords
          /\ attendance_records[<<s, currentDate>>] # NoRecord
          /\ attendance_records[<<s, currentDate>>].status = StatusOf(attendance, s)

FailedLoad(op) == op.op \in {"loadStudents", "loadAttendance"} /\ ~op.ok

\* C14: a load that fails, at the roster fetch or at the records fetch,
\* leaves the editable map, existingRecords and the dirty flag as they
\* were when its response arrived.
C14_FailedLoadKeepsMaps ==
    [][FailedLoad(lastOp') =>
          UNCHANGED <<attendance, existingRecords, hasChanges>>]_vars

\* C14 witness: a load failed on a page that holds entries.
C14_Witness ==
    /\ FailedLoad(lastOp)
    /\ attendance # <<>>
    /\ existingRecords # <<>>

\* C15 (as claimed): after a load for the selected class and date has
\* failed, the editable map and existingRecords are empty.
C15_FailedLoadLeavesEmpty ==
    (FailedLoad(lastOp) /\ lastOp.cls = selectedClass /\ lastOp.date = currentDate) =>
        /\ attendance = <<>>
        /\ existingRecords = <<>>

\* The handleSaveAttendance call of a step, told by what it leaves in lastOp.
SubmitStep(before, after) ==
    \/ after.op \in {"saveDeclined", "saveStart"}
    \/ after.op = "saveOk" /\ before.pc = "idle"

\* C16: when a roster student has no status as Save is clicked, writes are
\* issued only if the user confirms; declining changes neither the store nor
\* the maps nor the dirty flag, and confirming submits exactly the entries
\* that have a status.
C16_UnmarkedNeedsConfirm ==
    [][(SubmitStep(save, lastOp')
        /\ \E s \in Range(students) : StatusOf(attendance, s) \notin Statuses) =>
          IF lastOp'.confirmed
          THEN StudentsOf(save'.inserts) \cup UpdatedStudents(save'.updates)
                  = {s \in Keys(attendance) : StatusOf(attendance, s) \in Statuses}
          ELSE /\ save' = Idle
               /\ UNCHANGED <<storeVars, attendance, existingRecords,
                              hasChanges, saving>>]_vars

\* C16 witness: a submission was confirmed with one roster student marked
\* and another not.
C16_Witness ==
    /\ lastOp.op = "saveStart" /\ lastOp.confirmed
    /\ save.att = attendance
    /\ \E s \in Range(students) : StatusOf(attendance, s) \notin Statuses
    /\ \E s \in Range(students) : StatusOf(attendance, s) \in Statuses

\* C18 (as claimed): when a submission ends after another class or date has
\* been selected, its result changes neither the editable map nor
\* existingRecords nor the dirty flag.
C18_StaleResultIgnored ==
    [][(save.pc # "idle" /\ save'.pc = "idle"
        /\ (save.cls # selectedClass \/ save.date # currentDate)) =>
          UNCHANGED <<attendance, existingRecords, hasChanges>>]_vars

IsSuffix(t, q) ==
    \E k \in 0..Len(q) : t = SubSeq(q, k + 1, Len(q))

Applied(recs, u) ==
    /\ recs[u.id].status = u.data.status
    /\ recs[u.id].notes = u.data.notes

\* C17: an update of an existing record, of this session or of the other,
\* is accepted whatever the record holds by then, and leaves in it the
\* status and notes that update carries: the update applied last wins.
C17_LastUpdateWins ==
    [][/\ (other.pc = "updating" /\ lastOp'.op = "otherUpdate" /\ lastOp'.ok) =>
              Applied(attendance_records', Head(other.updates))
       /\ (save.pc = "update" /\ lastOp'.op \in {"updated", "saveOk"}
           /\ Head(save.updates).id \in Students \X Dates) =>
              Applied(attendance_records', Head(save.updates))
       /\ save.pc = "update" => ENABLED updateReturn(TRUE)
       /\ other.pc = "updating" => ENABLED otherUpdateReturn(TRUE)]_vars

\* C17 witness: both sessions loaded the record of s2, this session's update
\* was applied, and then the other session's, sent from what it had loaded
\* before: the store holds the other session's status.
C17_Witness ==
    /\ lastOp.op = "otherUpdate" /\ lastOp.ok /\ other.pc = "saved"
    /\ StatusOf(other.loaded, "s2") = "absent"
    /\ ExistingOf(existingRecords, "s2") = ExistingOf(other.ex, "s2")
    /\ ~hasChanges /\ save.pc = "idle"
    /\ StatusOf(attendance, "s2") \notin {"absent", StatusOf(other.att, "s2")}
    /\ attendance_records[<<"s2", Today>>].status = StatusOf(other.att, "s2")

\* The write a step adds to, or takes from, those of the admin in flight.
IssuedCall(before, after) ==
    CHOOSE c \in BagToSet(after.calls) : after.calls = before.calls (+) SetToBag({c})
AnsweredCall(before, after) ==
    CHOOSE c \in BagToSet(before.calls) : after.calls = before.calls (-) SetToBag({c})

\* C20: no step removes a row of the students or the profiles table.  A
\* confirmed toggle of a student asks for the opposite of the flag its row
\* shows, and a toggle of that value asks for the flag again; a confirmed
\* toggle of an active teacher asks for 'paused', of a paused one for
\* 'active', and a toggle of that value asks for the status again.  The
\* answered write changes that one field of that one row and nothing else
\* in the store.
C20_NeverRemoved ==
    [][/\ DOMAIN is_active \subseteq DOMAIN is_active'
       /\ DOMAIN profiles \subseteq DOMAIN profiles'
       /\ (lastOp'.op = "toggleStudent" /\ lastOp'.confirmed) =>
              LET shown == admin.students[lastOp'.arg]
                  c == IssuedCall(admin, admin')
              IN /\ c.id = lastOp'.arg
                 /\ c.value = (IF shown THEN FALSE ELSE TRUE)
                 /\ toggledStudentStatus(c.value) = shown
       /\ (lastOp'.op = "toggleTeacher" /\ lastOp'.confirmed) =>
              LET shown == admin.teachers[lastOp'.arg]
                  c == IssuedCall(admin, admin')
              IN /\ c.id = lastOp'.arg
                 /\ c.value = (IF shown = "active" THEN "paused" ELSE "active")
                 /\ toggledTeacherStatus(c.value) = shown
       /\ (lastOp'.op = "updateStudent" /\ lastOp'.ok) =>
              LET c == AnsweredCall(admin, admin')
              IN /\ is_active' = [is_active EXCEPT ![c.id] = c.value]
                 /\ UNCHANGED <<attendance_records, profiles>>
       /\ (lastOp'.op = "updateTeacher" /\ lastOp'.ok) =>
              LET c == AnsweredCall(admin, admin')
              IN /\ profiles' = [profiles EXCEPT ![c.id] = c.value]
                 /\ UNCHANGED <<attendance_records, is_active>>
       /\ lastOp'.op \notin {"updateStudent", "updateTeacher"} =>
              UNCHANGED <<is_active, profiles>>]_vars

\* C20 witness: student s1, active at the start, was deactivated and, from
\* the reloaded list, toggled again: the row is there and active.
C20_Witness ==
    /\ lastOp.op = "updateStudent" /\ lastOp.ok /\ lastOp.arg = "s1"
    /\ "s1" \in DOMAIN is_active
    /\ is_active["s1"]
    /\ admin.calls = EmptyBag

\* C22: a submission has one write in flight at a time.  It starts with the
\* batched insert when there is one; the first update is in flight only
\* once the insert has returned without error (its rows are in the store),
\* each later update only once the one before has returned without error,
\* and the insert is never issued after an update.
C22_OneWriteAtATime ==
    [][/\ (save.pc = "idle" /\ save'.pc # "idle") =>
              /\ save'.pc = (IF save'.inserts # <<>> THEN "insert" ELSE "update")
              /\ save'.pc = "update" => save'.updates # <<>>
       /\ (save.pc = "insert" /\ save'.pc = "update") =>
              /\ lastOp'.op = "inserted" /\ lastOp'.ok
              /\ save'.updates = save.updates /\ save.updates # <<>>
              /\ \A i \in DOMAIN save.inserts :
                    attendance_records'[<<save.inserts[i].student_id,
                                          save.inserts[i].attendance_date>>] # NoRecord
       /\ (save.pc = "insert" /\ save'.pc = "insert") => save' = save
       /\ (save.pc = "update" /\ save'.pc # "idle") =>
              /\ save'.pc = "update"
              /\ \/ save' = save
                 \/ /\ lastOp'.op = "updated" /\ lastOp'.ok
                    /\ save'.updates = Tail(save.updates)
                    /\ save'.updates # <<>>]_vars

\* C22 witness: the first of two updates has returned and the second is in
\* flight.
C22_Witness ==
    /\ lastOp.op = "updated"
    /\ save.pc = "update"
    /\ Len(save.updates) = 1

\* C23: a Mark All whose dialog is declined changes nothing of the page or
\* the store; one that changes the editable map or the dirty flag was
\* confirmed, with a class selected and a roster that is not empty.
C23_BulkNeedsConfirm ==
    [][lastOp'.op = "quickMark" =>
          IF lastOp'.confirmed
          THEN selectedClass # NoClass /\ students # <<>>
          ELSE UNCHANGED <<attendance, hasChanges, existingRecords, storeVars,
                           selectedClass, currentDate, students, save>>]_vars

\* C23 witness: a Mark All was declined on a page that holds entries.
C23_Witness ==
    /\ lastOp.op = "quickMark" /\ ~lastOp.confirmed
    /\ attendance # <<>>

\* C24: an edit of one field changes at most one entry of the editable map,
\* and of that entry only the field named; the entries keep their order,
\* existingRecords, the selected class and date and the store are unchanged
\* and the page is dirty.
C24_EditTouchesOneField ==
    [][lastOp'.op \in {"status", "notes"} =>
          LET changed == {s \in Students :
                             \/ StatusOf(attendance', s) # StatusOf(attendance, s)
                             \/ NotesOf(attendance', s) # NotesOf(attendance, s)}
          IN /\ Cardinality(changed) <= 1
             /\ \A s \in changed :
                   IF lastOp'.op = "status"
                   THEN NotesOf(attendance', s) = NotesOf(attendance, s)
                   ELSE StatusOf(attendance', s) = StatusOf(attendance, s)
             /\ Keys(attendance) \subseteq Keys(attendance')
             /\ Cardinality(Keys(attendance') \ Keys(attendance)) <= 1
             /\ \A i \in DOMAIN attendance : attendance'[i].id = attendance[i].id
             /\ hasChanges'
             /\ UNCHANGED <<existingRecords, selectedClass, currentDate,
                            students, storeVars, save>>]_vars

\* C24 witness: the status of an entry that holds notes was changed.
C24_Witness ==
    /\ lastOp.op = "status"
    /\ \E s \in Keys(attendance) :
          /\ NotesOf(attendance, s) = "sick"
          /\ StatusOf(attendance, s) \in Statuses \ {"absent"}

\* C26 (as claimed): when the last of the loads in flight has returned, and
\* returned rows, the editable map and existingRecords hold the records of
\* the class and date that are selected.
C26_LoadsSettleOnSelection ==
    (lastOp.op = "loadAttendance" /\ lastOp.ok
     /\ loads = EmptyBag /\ classLoads = EmptyBag /\ selectedClass # NoClass) =>
        HoldsExactly(selectedClass, currentDate)

\* C27 (as claimed): when a submission reports success for the class and
\* date still selected and the editable map holds a status or notes that
\* the submission was not computed from, the page is dirty.
C27_EditInFlightStaysDirty ==
    [][(save.pc # "idle" /\ lastOp'.op = "saveOk"
        /\ save.cls = selectedClass /\ save.date = currentDate
        /\ \E s \in Students :
              \/ StatusOf(attendance', s) # StatusOf(save.att, s)
              \/ NotesOf(attendance', s) # NotesOf(save.att, s)) =>
          hasChanges']_vars

\* C30: when every status of the editable map is present, late or absent,
\* the four counters add up to the number of roster students, and each
\* counter is the number of roster students with that status (unmarked:
\* with none), so each student is counted once.
C30_StatsPartitionRoster ==
    (\A i \in DOMAIN attendance : attendance[i].status \in Statuses \cup {UNDEF}) =>
        LET stats == getAttendanceStats
            With(st) == Cardinality({i \in DOMAIN students :
                                        StatusOf(attendance, students[i]) = st})
        IN /\ stats.present + stats.late + stats.absent + stats.unmarked
                 = Len(students)
           /\ stats.present = With("present")
           /\ stats.late = With("late")
           /\ stats.absent = With("absent")
           /\ stats.unmarked = With(UNDEF)

\* C30 witness: a roster of two with one student marked present and the
\* other not marked.
C30_Witness ==
    /\ Len(students) = 2
    /\ getAttendanceStats.present = 1
    /\ getAttendanceStats.unmarked = 1

\* C25 (as claimed, for what the writes themselves show): the class and
\* date a submission writes are those of the records in its maps, so every
\* update in flight targets a record of the class and date it carries.
C25_WritesCarryLoadedPair ==
    save.pc # "idle" =>
        \A i \in DOMAIN save.updates :
            LET u == save.updates[i]
            IN u.id \in Students \X Dates =>
                  /\ u.id[2] = u.data.attendance_date
                  /\ attendance_records[u.id].class_id = u.data.class_id

\* C21: the navigation is a function of the user and the profile the bar
\* holds: without a user or without a profile it is Sign In and Sign Up and
\* nothing else; otherwise the Admin Panel is offered exactly when the role
\* is admin, and the Quick link exactly when the role is teacher and the
\* profile has a default class, whose attendance page it targets.
C21_NavigationFollowsProfile ==
    LET pages == getNavigationPages(user, nav.profile)
        names == {pages[i].pageName : i \in DOMAIN pages}
        quick == {pages[i].link : i \in {j \in DOMAIN pages : pages[j].pageName = "Quick"}}
    IN
    IF user = NoUser \/ nav.profile = NoProfile
    THEN names = {"Sign In", "Sign Up"} /\ Len(pages) = 2
    ELSE /\ "Admin Panel" \in names <=> nav.profile.role = "admin"
         /\ "Quick" \in names <=>
               (nav.profile.role = "teacher" /\ nav.profile.default_class_id \in Classes)
         /\ quick \subseteq {<<"teacher", "attendance", nav.profile.default_class_id>>}
         /\ names \cap {"Sign In", "Sign Up"} = {}

\* C21 witness: the bar holds the profile of a teacher with a default
\* class and offers the Quick link to the attendance page of that class.
C21_Witness ==
    /\ user # NoUser
    /\ nav.profile.role = "teacher"
    /\ nav.profile.default_class_id \in Classes
    /\ \E i \in DOMAIN getNavigationPages(user, nav.profile) :
          getNavigationPages(user, nav.profile)[i] =
             Page("Quick", <<"teacher", "attendance", nav.profile.default_class_id>>)

\* The other cases of C21 are reached too: a teacher without a default
\* class, and an admin.
C21_WitnessNoDefault ==
    /\ user # NoUser
    /\ nav.profile.role = "teacher"
    /\ ~Truthy(nav.profile.default_class_id)

C21_WitnessAdmin == user # NoUser /\ nav.profile.role = "admin"

\* C28: the profile the navigation bar holds is no profile or the profile
\* of the session user.
C28_ProfileOfSessionUser ==
    nav.profile = NoProfile \/ nav.profile.id = user

\* C29: when every remote call returns, the loading flag of the attendance
\* page, its saving flag and the loading flag of the teacher dashboard are
\* each false again some time after they are true.
C29_FlagsFallAgain ==
    /\ loading ~> ~loading
    /\ saving ~> ~saving
    /\ dash.loading ~> ~dash.loading

\* C29 witness: a write of a submission has failed, and the page, with no
\* call in flight, is neither saving nor loading; the load of the dashboard
\* has ended too.
C29_Witness ==
    /\ lastOp.op = "saveFailed"
    /\ save = Idle /\ loads = EmptyBag /\ classLoads = EmptyBag
    /\ ~saving
    /\ ~loading
    /\ dash.loads = EmptyBag
    /\ ~dash.loading

\* The failure paths of the two loads are reached too.
C29_WitnessFailedLoad == FailedLoad(lastOp) /\ loads = EmptyBag /\ ~loading

C29_WitnessDashboard ==
    dash.loads = EmptyBag /\ dash.profile = NoProfile /\ ~dash.loading

====
